---- MODULE Spec2Model ----
(***************************************************************************)
(* Model of latlngbounds.py: the classes LatLngPoint and LatLngBounds.     *)
(*                                                                         *)
(* Coordinates are whole degrees; fractional degrees and the IEEE special   *)
(* values (NaN, infinities) are outside the model, as are arguments of the  *)
(* Python 2 types long and bool.  A Python object is a record with a        *)
(* field "kind": a LatLngPoint instance carries latitude and longitude,    *)
(* a number carries its Python type ("int" or "float") and its value, and  *)
(* a str carries nothing else.  A method is an operator from its arguments *)
(* to an outcome: the value returned, or the exception raised.  The heap   *)
(* (points, bounds) holds the instances the program has constructed; a     *)
(* LatLngBounds instance refers to its two corner instances by their place *)
(* in points, as self.SW = inSW stores a reference.                        *)
(***************************************************************************)
EXTENDS Integers, Sequences, FiniteSets, TLC

VARIABLES points, bounds, last

vars == <<points, bounds, last>>

\* ------------------------------------------------------------------ bounds
\* Points the heap may hold, bounds instances it may hold, and the number of
\* intervals the coordinate ranges are divided into when inputs are drawn.
MaxPoints == 3
MaxBounds == 1
GridN == 2
ArithN == 4
CornerLatN == 3
CornerLngN == 4
CenterLatN == 32
CenterLngN == 72

Grid(lo, hi, n) == {lo + ((hi - lo) * i) \div n : i \in 0..n}

\* ---------------------------------------------------------------- objects
IntObj(v) == [kind |-> "int", val |-> v]
FloatObj(v) == [kind |-> "float", val |-> v]
StrObj == [kind |-> "str"]
Point(lat, lng) == [kind |-> "LatLngPoint", latitude |-> lat, longitude |-> lng]

Return(v) == [status |-> "ok", msg |-> "", value |-> v]
Raise(exc, m) == [status |-> exc, msg |-> m, value |-> StrObj]

IsNumber(x) == x.kind \in {"int", "float"}
IsPoint(x) == x.kind = "LatLngPoint"

\* ------------------------------------------------------------ LatLngPoint
\* Mutant: the ends of the two ranges are rejected.
LatLngPoint_init_OpenRange(inLat, inLng) ==
    IF ~IsNumber(inLat) THEN Raise("TypeError", "invalid type for latitude")
    ELSE IF ~IsNumber(inLng) THEN Raise("TypeError", "invalid type for longitude")
    ELSE IF inLat.val <= -90 \/ inLat.val >= 90
         THEN Raise("ValueError", "invalid latitude value")
    ELSE IF inLng.val <= -180 \/ inLng.val >= 180
         THEN Raise("ValueError", "invalid longitude value")
    ELSE Return(Point(inLat.val, inLng.val))

LatLngPoint_init(inLat, inLng) ==
    IF ~IsNumber(inLat) THEN Raise("TypeError", "invalid type for latitude")
    ELSE IF ~IsNumber(inLng) THEN Raise("TypeError", "invalid type for longitude")
    ELSE IF inLat.val < -90 \/ inLat.val > 90
         THEN Raise("ValueError", "invalid latitude value")
    ELSE IF inLng.val < -180 \/ inLng.val > 180
         THEN Raise("ValueError", "invalid longitude value")
    ELSE Return(Point(inLat.val, inLng.val))

\* Mutant: the longitude is not wrapped.
LatLngPoint_add_NoWrap(self, inOther) ==
    IF ~IsPoint(inOther) THEN Raise("TypeError", "invalid type for add")
    ELSE LET sumLat == self.latitude + inOther.latitude
             newLat == IF sumLat > 90 THEN IntObj(90)
                       ELSE IF sumLat < -90 THEN FloatObj(-90)
                       ELSE FloatObj(sumLat)
             sumLng == self.longitude + inOther.longitude
         IN  LatLngPoint_init(newLat, FloatObj(sumLng))

\* Mutant: a latitude beyond the north pole is wrapped like a longitude.
LatLngPoint_add_WrapsLatitude(self, inOther) ==
    IF ~IsPoint(inOther) THEN Raise("TypeError", "invalid type for add")
    ELSE LET sumLat == self.latitude + inOther.latitude
             newLat == IF sumLat > 90 THEN FloatObj(-90 + (sumLat - 90))
                       ELSE IF sumLat < -90 THEN FloatObj(-90)
                       ELSE FloatObj(sumLat)
             sumLng == self.longitude + inOther.longitude
             newLng == IF sumLng > 180 THEN -180 + (sumLng - 180)
                       ELSE IF sumLng < -180 THEN 180 + (sumLng + 180)
                       ELSE sumLng
         IN  LatLngPoint_init(newLat, FloatObj(newLng))

LatLngPoint_add(self, inOther) ==
    IF ~IsPoint(inOther) THEN Raise("TypeError", "invalid type for add")
    ELSE LET sumLat == self.latitude + inOther.latitude
             newLat == IF sumLat > 90 THEN IntObj(90)
                       ELSE IF sumLat < -90 THEN FloatObj(-90)
                       ELSE FloatObj(sumLat)
             sumLng == self.longitude + inOther.longitude
             newLng == IF sumLng > 180 THEN -180 + (sumLng - 180)
                       ELSE IF sumLng < -180 THEN 180 + (sumLng + 180)
                       ELSE sumLng
         IN  LatLngPoint_init(newLat, FloatObj(newLng))

\* Mutant: a longitude below -180 is not wrapped.
LatLngPoint_sub_NoWestWrap(self, inOther) ==
    IF ~IsPoint(inOther) THEN Raise("TypeError", "invalid type for subtract")
    ELSE LET difLat == self.latitude - inOther.latitude
             newLat == IF difLat > 90 THEN IntObj(90)
                       ELSE IF difLat < -90 THEN FloatObj(-90)
                       ELSE FloatObj(difLat)
             difLng == self.longitude - inOther.longitude
             newLng == IF difLng > 180 THEN -180 + (difLng - 180)
                       ELSE difLng
         IN  LatLngPoint_init(newLat, FloatObj(newLng))

LatLngPoint_sub(self, inOther) ==
    IF ~IsPoint(inOther) THEN Raise("TypeError", "invalid type for subtract")
    ELSE LET difLat == self.latitude - inOther.latitude
             newLat == IF difLat > 90 THEN IntObj(90)
                       ELSE IF difLat < -90 THEN FloatObj(-90)
                       ELSE FloatObj(difLat)
             difLng == self.longitude - inOther.longitude
             newLng == IF difLng > 180 THEN -180 + (difLng - 180)
                       ELSE IF difLng < -180 THEN 180 + (difLng + 180)
                       ELSE difLng
         IN  LatLngPoint_init(newLat, FloatObj(newLng))

\* ----------------------------------------------------------- LatLngBounds
\* The instance as its methods see it: the corner objects and the flag.
Bounds(sw, ne, cross) ==
    [kind |-> "LatLngBounds", SW |-> sw, NE |-> ne, crossDateline |-> cross]

\* Mutant: corners of equal latitude are accepted.
LatLngBounds_init_AllowsFlat(inSW, inNE) ==
    IF ~IsPoint(inSW) THEN Raise("TypeError", "invalid type for SW point")
    ELSE IF ~IsPoint(inNE) THEN Raise("TypeError", "invalid type for NE point")
    ELSE IF inSW.latitude > inNE.latitude
         THEN Raise("ValueError", "invalid latitude bounds")
    ELSE IF inSW.longitude = inNE.longitude
         THEN Raise("ValueError", "invalid longitude bounds")
    ELSE Return(Bounds(inSW, inNE, inSW.longitude > inNE.longitude))

\* Mutant: the flag is set when the corners' longitudes are in order.
LatLngBounds_init_FlagInverted(inSW, inNE) ==
    IF ~IsPoint(inSW) THEN Raise("TypeError", "invalid type for SW point")
    ELSE IF ~IsPoint(inNE) THEN Raise("TypeError", "invalid type for NE point")
    ELSE IF inSW.latitude >= inNE.latitude
         THEN Raise("ValueError", "invalid latitude bounds")
    ELSE IF inSW.longitude = inNE.longitude
         THEN Raise("ValueError", "invalid longitude bounds")
    ELSE Return(Bounds(inSW, inNE, inSW.longitude < inNE.longitude))

LatLngBounds_init(inSW, inNE) ==
    IF ~IsPoint(inSW) THEN Raise("TypeError", "invalid type for SW point")
    ELSE IF ~IsPoint(inNE) THEN Raise("TypeError", "invalid type for NE point")
    ELSE IF inSW.latitude >= inNE.latitude
         THEN Raise("ValueError", "invalid latitude bounds")
    ELSE IF inSW.longitude = inNE.longitude
         THEN Raise("ValueError", "invalid longitude bounds")
    ELSE Return(Bounds(inSW, inNE, inSW.longitude > inNE.longitude))

\* Mutant: the two longitude edges of bounds that cross the antimeridian are
\* counted as inside.
LatLngBounds_Contains_ClosedEdge(self, inPoint) ==
    IF ~IsPoint(inPoint) THEN Raise("TypeError", "invalid type for point")
    ELSE IF self.crossDateline
         THEN LET rv1 == IF inPoint.latitude <= self.SW.latitude
                            \/ inPoint.latitude >= self.NE.latitude
                         THEN FALSE ELSE TRUE
                  rv2 == IF inPoint.longitude > self.NE.longitude
                            /\ inPoint.longitude < self.SW.longitude
                         THEN FALSE ELSE rv1
              IN  Return(rv2)
    ELSE Return(inPoint.latitude > self.SW.latitude
                /\ inPoint.latitude < self.NE.latitude
                /\ inPoint.longitude > self.SW.longitude
                /\ inPoint.longitude < self.NE.longitude)

LatLngBounds_Contains(self, inPoint) ==
    IF ~IsPoint(inPoint) THEN Raise("TypeError", "invalid type for point")
    ELSE IF self.crossDateline
         THEN LET rv1 == IF inPoint.latitude <= self.SW.latitude
                            \/ inPoint.latitude >= self.NE.latitude
                         THEN FALSE ELSE TRUE
                  rv2 == IF inPoint.longitude >= self.NE.longitude
                            /\ inPoint.longitude <= self.SW.longitude
                         THEN FALSE ELSE rv1
              IN  Return(rv2)
    ELSE Return(inPoint.latitude > self.SW.latitude
                /\ inPoint.latitude < self.NE.latitude
                /\ inPoint.longitude > self.SW.longitude
                /\ inPoint.longitude < self.NE.longitude)

\* ------------------------------------------------------------- references
\* What a caller can pass where an instance is expected: a constructed point
\* or an object that is no LatLngPoint.
Ref(i) == [ref |-> "LatLngPoint", id |-> i]
NotAPoint == [ref |-> "str", id |-> 0]
Refs == {Ref(i) : i \in 1..Len(points)} \cup {NotAPoint}
Deref(r) == IF r.ref = "LatLngPoint" THEN points[r.id] ELSE StrObj

\* The k-th LatLngBounds instance with its corner references followed.
BoundsAt(k) ==
    Bounds(points[bounds[k].SW], points[bounds[k].NE], bounds[k].crossDateline)

Call(op, args, r) ==
    [op |-> op, args |-> args, status |-> r.status, msg |-> r.msg,
     ret |-> IF r.status = "ok" /\ op = "Contains" THEN r.value ELSE FALSE]

\* ------------------------------------------------------------------ inputs
Numbers(S) == {IntObj(v) : v \in S} \cup {FloatObj(v) : v \in S}

\* Arguments of the constructor calls of the heap machine.
LatArgs == {FloatObj(-90), IntObj(90), IntObj(91), StrObj}
LngArgs == {FloatObj(-180), IntObj(0), FloatObj(180), FloatObj(-181), StrObj}

\* ----------------------------------------------------------------- actions
NewPoint(inLat, inLng) ==
    /\ Len(points) < MaxPoints
    /\ LET r == LatLngPoint_init(inLat, inLng)
       IN  /\ points' = IF r.status = "ok" THEN Append(points, r.value) ELSE points
           /\ last' = Call("LatLngPoint", <<inLat, inLng>>, r)
    /\ UNCHANGED bounds

\* Mutant: + writes the sum into its left operand (as += would).
Add_InPlace(i, other) ==
    /\ Len(points) < MaxPoints
    /\ LET r == LatLngPoint_add(points[i], Deref(other))
       IN  /\ points' = IF r.status = "ok"
                        THEN [points EXCEPT ![i] = r.value] ELSE points
           /\ last' = Call("add", <<Ref(i), other>>, r)
    /\ UNCHANGED bounds

Add(i, other) ==
    /\ Len(points) < MaxPoints
    /\ LET r == LatLngPoint_add(points[i], Deref(other))
       IN  /\ points' = IF r.status = "ok" THEN Append(points, r.value) ELSE points
           /\ last' = Call("add", <<Ref(i), other>>, r)
    /\ UNCHANGED bounds

Sub(i, other) ==
    /\ Len(points) < MaxPoints
    /\ LET r == LatLngPoint_sub(points[i], Deref(other))
       IN  /\ points' = IF r.status = "ok" THEN Append(points, r.value) ELSE points
           /\ last' = Call("sub", <<Ref(i), other>>, r)
    /\ UNCHANGED bounds

NewBounds(sw, ne) ==
    /\ Len(bounds) < MaxBounds
    /\ LET r == LatLngBounds_init(Deref(sw), Deref(ne))
       IN  /\ bounds' = IF r.status = "ok"
                        THEN Append(bounds, [SW |-> sw.id, NE |-> ne.id,
                                             crossDateline |-> r.value.crossDateline])
                        ELSE bounds
           /\ last' = Call("LatLngBounds", <<sw, ne>>, r)
    /\ UNCHANGED points

Contains(k, p) ==
    /\ LET r == LatLngBounds_Contains(BoundsAt(k), Deref(p))
       IN  last' = Call("Contains", <<k, p>>, r)
    /\ UNCHANGED <<points, bounds>>

NoCall == [op |-> "none", args |-> <<>>, status |-> "ok", msg |-> "", ret |-> FALSE]

Init ==
    /\ points = <<>>
    /\ bounds = <<>>
    /\ last = NoCall

Next ==
    \/ \E inLat \in LatArgs, inLng \in LngArgs : NewPoint(inLat, inLng)
    \/ \E i \in 1..Len(points), other \in Refs : Add(i, other)
    \/ \E i \in 1..Len(points), other \in Refs : Sub(i, other)
    \/ \E sw \in Refs, ne \in Refs : NewBounds(sw, ne)
    \/ \E k \in 1..Len(bounds), p \in Refs : Contains(k, p)

Spec == Init /\ [][Next]_vars

\* ------------------------------------------------------------ constructor
\* The constructor alone, over both numeric types, a str, the ends of the
\* two ranges and the first whole degree beyond them.
CtorLatArgs == Numbers(Grid(-90, 90, GridN) \cup {-91, 91}) \cup {StrObj}
CtorLngArgs == Numbers(Grid(-180, 180, GridN) \cup {-181, 181}) \cup {StrObj}

\* Construction is attempted until a first instance exists.
NextPoint ==
    /\ points = <<>>
    /\ \E inLat \in CtorLatArgs, inLng \in CtorLngArgs : NewPoint(inLat, inLng)

SpecPoint == Init /\ [][NextPoint]_vars

\* ------------------------------------------------------------- arithmetic
\* Two operands drawn from a grid over the whole ranges, then + and -.
ArithPoints ==
    {Point(lat, lng) : lat \in Grid(-90, 90, ArithN), lng \in Grid(-180, 180, ArithN)}

InitArith ==
    /\ points \in {<<a, b>> : a \in ArithPoints, b \in ArithPoints}
    /\ bounds = <<>>
    /\ last = NoCall

NextArith ==
    \/ \E i \in 1..Len(points), other \in Refs : Add(i, other)
    \/ \E i \in 1..Len(points), other \in Refs : Sub(i, other)

SpecArith == InitArith /\ [][NextArith]_vars

\* ------------------------------------------------------------ containment
\* Two corners and a query point drawn from a grid; the bounds are built
\* from the corners and asked about the point.
CornerPoints ==
    {Point(lat, lng) : lat \in Grid(-90, 90, CornerLatN),
                       lng \in Grid(-180, 180, CornerLngN)}

\* The grid twice as fine: it holds the corner grid and its midpoints.
FinePoints ==
    {Point(lat, lng) : lat \in Grid(-90, 90, 2 * CornerLatN),
                       lng \in Grid(-180, 180, 2 * CornerLngN)}

InitContains ==
    /\ points \in {<<sw, ne, p>> : sw \in CornerPoints, ne \in CornerPoints,
                                   p \in CornerPoints}
    /\ bounds = <<>>
    /\ last = NoCall

NextContains ==
    \/ NewBounds(Ref(1), Ref(2))
    \/ \E k \in 1..Len(bounds) : Contains(k, Ref(3))

SpecContains == InitContains /\ [][NextContains]_vars

\* ------------------------------------------------ TestLatLngBoundsContains
\* The containment test case: setUp builds the bounds 10 degrees around the
\* start point, and each test method asks Contains about the start point
\* moved by an offset and asserts the answer.
TestMethods ==
    { [name |-> "test_Center",    op |-> "+", lat |-> 0,  lng |-> 0,  expect |-> TRUE],
      [name |-> "test_WestEdge",  op |-> "-", lat |-> 10, lng |-> 0,  expect |-> FALSE],
      [name |-> "test_EastEdge",  op |-> "+", lat |-> 10, lng |-> 0,  expect |-> FALSE],
      [name |-> "test_NorthEdge", op |-> "+", lat |-> 0,  lng |-> 10, expect |-> FALSE],
      [name |-> "test_SouthEdge", op |-> "-", lat |-> 0,  lng |-> 10, expect |-> FALSE],
      [name |-> "test_InWest",    op |-> "-", lat |-> 5,  lng |-> 0,  expect |-> TRUE],
      [name |-> "test_InEast",    op |-> "+", lat |-> 5,  lng |-> 0,  expect |-> TRUE],
      [name |-> "test_InNorth",   op |-> "+", lat |-> 0,  lng |-> 5,  expect |-> TRUE],
      [name |-> "test_InSouth",   op |-> "-", lat |-> 0,  lng |-> 5,  expect |-> TRUE],
      [name |-> "test_OutWest",   op |-> "-", lat |-> 15, lng |-> 0,  expect |-> FALSE],
      [name |-> "test_OutEast",   op |-> "+", lat |-> 15, lng |-> 0,  expect |-> FALSE],
      [name |-> "test_OutNorth",  op |-> "+", lat |-> 0,  lng |-> 15, expect |-> FALSE],
      [name |-> "test_OutSouth",  op |-> "-", lat |-> 0,  lng |-> 15, expect |-> FALSE] }

\* The first exception of a sequence of outcomes, or else the last outcome.
FirstRaised(rs) ==
    IF \E n \in 1..Len(rs) : rs[n].status # "ok"
    THEN rs[CHOOSE n \in 1..Len(rs) :
                /\ rs[n].status # "ok"
                /\ \A m \in 1..(n - 1) : rs[m].status = "ok"]
    ELSE rs[Len(rs)]

setUp(startLat, startLng) ==
    /\ LET start == LatLngPoint_init(IntObj(startLat), IntObj(startLng))
           d1 == LatLngPoint_init(IntObj(10), IntObj(10))
           sw == IF start.status = "ok" /\ d1.status = "ok"
                 THEN LatLngPoint_sub(start.value, d1.value) ELSE d1
           d2 == LatLngPoint_init(IntObj(10), IntObj(10))
           ne == IF start.status = "ok" /\ d2.status = "ok"
                 THEN LatLngPoint_add(start.value, d2.value) ELSE d2
           b  == IF sw.status = "ok" /\ ne.status = "ok"
                 THEN LatLngBounds_init(sw.value, ne.value) ELSE ne
           r  == FirstRaised(<<start, d1, sw, d2, ne, b>>)
       IN  /\ points' = IF r.status = "ok"
                        THEN <<start.value, sw.value, ne.value>> ELSE <<>>
           /\ bounds' = IF r.status = "ok"
                        THEN <<[SW |-> 2, NE |-> 3,
                                crossDateline |-> b.value.crossDateline]>>
                        ELSE <<>>
           /\ last' = Call("setUp", <<startLat, startLng>>, r)

RunTest(t) ==
    /\ last.op = "setUp"
    /\ last.status = "ok"
    /\ LET d == LatLngPoint_init(IntObj(t.lat), IntObj(t.lng))
           p == IF t.name = "test_Center" THEN Return(points[1])
                ELSE IF d.status # "ok" THEN d
                ELSE IF t.op = "+" THEN LatLngPoint_add(points[1], d.value)
                ELSE LatLngPoint_sub(points[1], d.value)
           c == IF p.status = "ok"
                THEN LatLngBounds_Contains(BoundsAt(1), p.value) ELSE p
           r == IF c.status = "ok" /\ c.value # t.expect
                THEN Raise("AssertionError", t.name) ELSE c
       IN  last' = [op |-> t.name, args |-> <<t.op, t.lat, t.lng>>,
                    status |-> r.status, msg |-> r.msg,
                    ret |-> IF c.status = "ok" THEN c.value ELSE FALSE]
    /\ UNCHANGED <<points, bounds>>

\* The start points the test classes are run from.
StartLats == Grid(-80, 80, CenterLatN)
StartLngs == Grid(-180, 180, CenterLngN)

NextBattery ==
    \/ /\ last = NoCall
       /\ \E startLat \in StartLats, startLng \in StartLngs : setUp(startLat, startLng)
    \/ \E t \in TestMethods : RunTest(t)

SpecBattery == Init /\ [][NextBattery]_vars

\* ================================================================= claims
Abs(x) == IF x < 0 THEN -x ELSE x
BothPoints(args) == args[1].ref = "LatLngPoint" /\ args[2].ref = "LatLngPoint"
Newest == points[Len(points)]

\* C1: Contains(p) is true exactly when p's latitude is strictly between the
\* corners' latitudes and p's longitude is strictly between the corners'
\* longitudes (bounds that do not cross the antimeridian) or outside the
\* closed gap [NE.longitude, SW.longitude] (bounds that cross it); a point on
\* any of the four edges is not contained.
C1_ContainsExact ==
    last.op = "Contains" =>
        LET b == BoundsAt(last.args[1])
            p == Deref(last.args[2])
            latIn == b.SW.latitude < p.latitude /\ p.latitude < b.NE.latitude
            lngIn == IF b.SW.longitude > b.NE.longitude
                     THEN p.longitude > b.SW.longitude \/ p.longitude < b.NE.longitude
                     ELSE b.SW.longitude < p.longitude /\ p.longitude < b.NE.longitude
            onEdge == \/ p.latitude \in {b.SW.latitude, b.NE.latitude}
                      \/ p.longitude \in {b.SW.longitude, b.NE.longitude}
        IN  /\ last.status = "ok"
            /\ last.ret = (latIn /\ lngIn)
            /\ onEdge => last.ret = FALSE

C1_Witness ==
    /\ last.op = "Contains"
    /\ last.ret = TRUE
    /\ BoundsAt(last.args[1]).SW.longitude > BoundsAt(last.args[1]).NE.longitude

\* C2: for every start point, setUp builds the bounds, the start point and
\* the points 5 degrees from it are contained, and the points 10 degrees (on
\* an edge) and 15 degrees from it are not.
C2_Battery ==
    /\ last.op = "setUp" => last.status = "ok"
    /\ last.op \in {t.name : t \in TestMethods} =>
           /\ last.status = "ok"
           /\ last.ret = (Abs(last.args[2]) + Abs(last.args[3]) < 10)

C2_Witness ==
    /\ last.op = "test_InNorth"
    /\ last.ret = TRUE
    /\ bounds[1].crossDateline
    /\ points[1].latitude = 80

\* C3: every constructed point has its latitude in [-90, 90] and its longitude
\* in [-180, 180], and + and - of two points never raise.
C3_InRange ==
    /\ \A i \in 1..Len(points) :
           /\ -90 <= points[i].latitude /\ points[i].latitude <= 90
           /\ -180 <= points[i].longitude /\ points[i].longitude <= 180
    /\ (last.op \in {"add", "sub"} /\ BothPoints(last.args)) => last.status = "ok"

C3_Witness ==
    /\ last.op = "sub"
    /\ last.status = "ok"
    /\ BothPoints(last.args)
    /\ Deref(last.args[1]).longitude - Deref(last.args[2]).longitude < -180
    /\ Deref(last.args[1]).latitude - Deref(last.args[2]).latitude < -90

\* C4: the latitude of a + b and a - b is the sum or difference clamped to
\* [-90, 90]; the longitude is the sum or difference raw, raw - 360 when
\* raw > 180 and raw + 360 when raw < -180.
C4_ClampWrap ==
    /\ (last.op \in {"add", "sub"} /\ BothPoints(last.args)) =>
           LET a == Deref(last.args[1])
               b == Deref(last.args[2])
               s == IF last.op = "add" THEN 1 ELSE -1
               rawLat == a.latitude + s * b.latitude
               rawLng == a.longitude + s * b.longitude
           IN  /\ last.status = "ok"
               /\ Newest.latitude = IF rawLat > 90 THEN 90
                                    ELSE IF rawLat < -90 THEN -90 ELSE rawLat
               /\ Newest.longitude = IF rawLng > 180 THEN rawLng - 360
                                     ELSE IF rawLng < -180 THEN rawLng + 360
                                     ELSE rawLng
    /\ LatLngPoint_add(Point(10, 170), Point(0, 20)).value = Point(10, -170)
    /\ LatLngPoint_add(Point(10, -170), Point(0, -20)).value = Point(10, 170)

C4_Witness ==
    /\ last.op = "add"
    /\ last.status = "ok"
    /\ BothPoints(last.args)
    /\ Deref(last.args[1]).longitude + Deref(last.args[2]).longitude > 180
    /\ Deref(last.args[1]).latitude + Deref(last.args[2]).latitude > 90
    /\ Newest.longitude < 0

\* C5: construction from two numbers succeeds exactly when the latitude is in
\* [-90, 90] and the longitude in [-180, 180], the new point then holding the
\* inputs; otherwise it raises ValueError and creates no point; an argument
\* that is no number raises TypeError, whatever the other argument's value.
C5_PointInit ==
    last.op = "LatLngPoint" =>
        LET inLat == last.args[1]
            inLng == last.args[2]
        IN  IF IsNumber(inLat) /\ IsNumber(inLng)
            THEN LET valid == /\ -90 <= inLat.val /\ inLat.val <= 90
                              /\ -180 <= inLng.val /\ inLng.val <= 180
                 IN  /\ last.status = "ok" <=> valid
                     /\ valid => points = <<Point(inLat.val, inLng.val)>>
                     /\ ~valid => last.status = "ValueError" /\ points = <<>>
            ELSE last.status = "TypeError" /\ points = <<>>

C5_Witness ==
    /\ last.op = "LatLngPoint"
    /\ last.status = "ok"
    /\ last.args = <<IntObj(90), FloatObj(-180)>>
    /\ points = <<Point(90, -180)>>

\* C6: construction of bounds from two points raises ValueError exactly when
\* sw.latitude >= ne.latitude or sw.longitude = ne.longitude, and otherwise
\* stores the two points as its corners; an argument that is no point raises
\* TypeError, naming the southwest argument first.
BoundsInitStep ==
    last'.op = "LatLngBounds" =>
        LET inSW == Deref(last'.args[1])
            inNE == Deref(last'.args[2])
            n == Len(bounds')
        IN  IF ~IsPoint(inSW)
            THEN /\ last'.status = "TypeError"
                 /\ last'.msg = "invalid type for SW point"
                 /\ bounds' = bounds
            ELSE IF ~IsPoint(inNE)
            THEN /\ last'.status = "TypeError"
                 /\ last'.msg = "invalid type for NE point"
                 /\ bounds' = bounds
            ELSE LET bad == \/ inSW.latitude >= inNE.latitude
                            \/ inSW.longitude = inNE.longitude
                 IN  /\ last'.status = "ValueError" <=> bad
                     /\ bad => bounds' = bounds
                     /\ ~bad => /\ last'.status = "ok"
                                /\ n = Len(bounds) + 1
                                /\ points'[bounds'[n].SW] = inSW
                                /\ points'[bounds'[n].NE] = inNE

C6_BoundsInit == [][BoundsInitStep]_vars

C6_Witness ==
    /\ last.op = "LatLngBounds"
    /\ last.status = "ValueError"
    /\ BothPoints(last.args)
    /\ Deref(last.args[1]).latitude < Deref(last.args[2]).latitude

\* C7: every bounds instance has SW.latitude < NE.latitude, SW.longitude #
\* NE.longitude and crossDateline true exactly when SW.longitude >
\* NE.longitude, in every reachable state; and no step changes the flag of an
\* existing instance.
BoundsInvariant ==
    \A k \in 1..Len(bounds) :
        LET b == BoundsAt(k)
        IN  /\ b.SW.latitude < b.NE.latitude
            /\ b.SW.longitude # b.NE.longitude
            /\ b.crossDateline <=> b.SW.longitude > b.NE.longitude

FlagFixed ==
    \A k \in 1..Len(bounds) :
        /\ k <= Len(bounds')
        /\ bounds'[k].crossDateline = bounds[k].crossDateline

C7_BoundsInvariant == [](BoundsInvariant) /\ [][FlagFixed]_vars

C7_Witness ==
    /\ Len(bounds) = 1
    /\ bounds[1].crossDateline
    /\ last.op = "add"
    /\ last.status = "ok"

\* C8: a step of +, - or Contains leaves every existing point and every
\* existing bounds instance as it was, and a call that raises TypeError
\* changes nothing.
OperandsKept ==
    /\ \A i \in 1..Len(points) : i <= Len(points') /\ points'[i] = points[i]
    /\ bounds' = bounds
    /\ last'.status = "TypeError" => points' = points

C8_NoMutation ==
    [][last'.op \in {"add", "sub", "Contains"} => OperandsKept]_vars

C8_Witness ==
    /\ last.op = "Contains"
    /\ last.status = "ok"
    /\ Len(points) = MaxPoints
    /\ Newest # points[1]

\* C9: every bounds the constructor accepts contains at least one point of
\* the grid twice as fine as the grid of its corners.
C9_NotEmpty ==
    \A k \in 1..Len(bounds) :
        \E p \in FinePoints : LatLngBounds_Contains(BoundsAt(k), p).value

\* C10: for bounds that cross the antimeridian, Contains gives the same
\* answer for longitude 180 and longitude -180 at every latitude.
C10_AntimeridianAlike ==
    \A k \in 1..Len(bounds) :
        BoundsAt(k).SW.longitude > BoundsAt(k).NE.longitude =>
            \A lat \in Grid(-90, 90, 2 * CornerLatN) :
                LatLngBounds_Contains(BoundsAt(k), Point(lat, 180)).value
                    = LatLngBounds_Contains(BoundsAt(k), Point(lat, -180)).value

====
